---- MODULE Spec2Model ----
(***************************************************************************)
(* A model of the telecom ETL pipeline of                                  *)
(* intern_assessment/python_etl/telecom_etl.py and of the Airflow DAG of   *)
(* telecom_etl_dag.py that schedules it.                                   *)
(*                                                                         *)
(* Text is modelled as sequences of one-character strings, so that         *)
(* str.isdigit, len, slicing, str.strip, str.split and float are computed  *)
(* on characters as Python computes them.  Two characters stand for        *)
(* non-ASCII code points: "U+0663" (ARABIC-INDIC DIGIT THREE, a decimal    *)
(* digit: isdigit is true and float reads it as 3) and "U+00B2"            *)
(* (SUPERSCRIPT TWO: isdigit is true, float raises ValueError).            *)
(*                                                                         *)
(* customer_data.csv and customer_data_cleaned.csv are held as the rows    *)
(* csv.reader yields (a row is a sequence of fields); a blank line is the  *)
(* empty row.  Numbers are held in tenths, and the inputs keep to values   *)
(* with at most one fraction digit.                                        *)
(***************************************************************************)
EXTENDS Integers, Sequences, FiniteSets, TLC

(***************************************************************************)
(* Bounds of the model.                                                    *)
(***************************************************************************)
MaxCustomerRows == 3
MaxUsageLines == 3
MaxBillingRows == 3
MaxRuns == 2

(***************************************************************************)
(* Characters and strings.                                                 *)
(***************************************************************************)
AsciiDigits == {"0", "1", "2", "3", "4", "5", "6", "7", "8", "9"}

\* Characters for which str.isdigit() is true.
DigitChars == AsciiDigits \cup {"U+0663", "U+00B2"}

\* Characters float() and int() read as a decimal digit (Unicode category Nd).
DecimalChars == AsciiDigits \cup {"U+0663"}

\* Characters str.strip() removes.
Whitespace == {" ", "\n", "\t"}

\* The characters of the pipe-delimited inputs, in code point order.
CodePoints ==
    << "\t", "\n", " ", "-", ".", "0", "1", "2", "3", "4", "5", "6", "7", "8",
       "9", "A", "B", "C", "E", "I", "L", "N", "T", "U", "V", "a", "b", "h",
       "m", "u", "x", "|", "U+00B2", "U+0663" >>

ord(c) == CHOOSE i \in 1..Len(CodePoints) : CodePoints[i] = c

DigitValue(c) ==
    IF c = "U+0663" THEN 3
    ELSE CHOOSE v \in 0..9 : <<"0", "1", "2", "3", "4", "5", "6", "7", "8", "9">>[v + 1] = c

\* str.isdigit(): non-empty and every character a digit.
isdigit(s) == s # <<>> /\ \A i \in 1..Len(s) : s[i] \in DigitChars

RECURSIVE lstrip(_)
lstrip(s) == IF s # <<>> /\ Head(s) \in Whitespace THEN lstrip(Tail(s)) ELSE s

RECURSIVE rstrip(_)
rstrip(s) ==
    IF s # <<>> /\ s[Len(s)] \in Whitespace THEN rstrip(SubSeq(s, 1, Len(s) - 1)) ELSE s

\* str.strip()
strip(s) == rstrip(lstrip(s))

\* str.split(sep) for a one-character separator: "" splits to [""].
split(s, sep) ==
    LET F[i \in 0..Len(s)] ==
            IF i = 0 THEN << <<>> >>
            ELSE IF s[i] = sep THEN Append(F[i - 1], <<>>)
                 ELSE [F[i - 1] EXCEPT ![Len(F[i - 1])] = Append(@, s[i])]
    IN  F[Len(s)]

\* a > b for Python strings: by code points, a proper prefix being smaller.
RECURSIVE StrGreater(_, _)
StrGreater(a, b) ==
    IF a = <<>> THEN FALSE
    ELSE IF b = <<>> THEN TRUE
    ELSE IF Head(a) # Head(b) THEN ord(Head(a)) > ord(Head(b))
    ELSE StrGreater(Tail(a), Tail(b))

NULL == <<"N", "U", "L", "L">>


(***************************************************************************)
(* Numbers.  A float is held as an integer number of tenths: 2.5 is 25.    *)
(***************************************************************************)
RECURSIVE IntOf(_)
IntOf(s) == IF s = <<>> THEN 0 ELSE 10 * IntOf(SubSeq(s, 1, Len(s) - 1)) + DigitValue(s[Len(s)])

\* float(s): surrounding whitespace is dropped, then an optional "-", digits
\* with at most one "." and at least one digit.  Anything else of the
\* model's alphabet raises ValueError (ok = FALSE).
float(s) ==
    LET t     == strip(s)
        neg   == t # <<>> /\ Head(t) = "-"
        body  == IF neg THEN Tail(t) ELSE t
        parts == split(body, ".")
        whole == parts[1]
        frac  == IF Len(parts) = 2 THEN parts[2] ELSE <<>>
        well  == /\ Len(parts) \in {1, 2}
                 /\ Len(whole) + Len(frac) > 0
                 /\ \A i \in 1..Len(whole) : whole[i] \in DecimalChars
                 /\ \A i \in 1..Len(frac) : frac[i] \in DecimalChars
        mag   == IntOf(whole) * 10 + (IF frac = <<>> THEN 0 ELSE DigitValue(frac[1]))
    IN  IF well THEN [ok |-> TRUE, val |-> IF neg THEN 0 - mag ELSE mag]
        ELSE [ok |-> FALSE, val |-> 0]

\* s.replace('.', '', 1): the first "." removed.
RECURSIVE ReplaceFirstDot(_)
ReplaceFirstDot(s) ==
    IF s = <<>> THEN <<>>
    ELSE IF Head(s) = "." THEN Tail(s)
    ELSE <<Head(s)>> \o ReplaceFirstDot(Tail(s))

(***************************************************************************)
(* Files.  A file is absent, or holds a sequence of lines (rows for the    *)
(* CSV files).                                                             *)
(***************************************************************************)
Absent == [exists |-> FALSE, lines |-> <<>>]
File(ls) == [exists |-> TRUE, lines |-> ls]

InputFiles == <<"customer_data.csv", "usage_data.txt", "billing_records.txt">>

Stages == <<"validate", "clean", "dedupe", "aggregate", "report">>

(***************************************************************************)
(* The sentinels of clean_customer_data and the header it writes.          *)
(***************************************************************************)
UNKNOWN == <<"U", "N", "K", "N", "O", "W", "N">>
UNKNOWN_CUSTOMER ==
    <<"U", "N", "K", "N", "O", "W", "N", "_", "C", "U", "S", "T", "O", "M", "E", "R">>
ZeroPhone == <<"0", "0", "0", "0", "0", "0", "0", "0", "0", "0">>
NoEmail ==
    <<"n", "o", "e", "m", "a", "i", "l", "@", "u", "n", "k", "n", "o", "w", "n", ".", "c", "o", "m">>
DefaultDate == <<"1", "9", "0", "0", "-", "0", "1", "-", "0", "1">>
INACTIVE == <<"I", "N", "A", "C", "T", "I", "V", "E">>
ACTIVE == <<"A", "C", "T", "I", "V", "E">>
ZeroCredit == <<"0">>

Sentinels == <<UNKNOWN, UNKNOWN_CUSTOMER, ZeroPhone, NoEmail, DefaultDate, INACTIVE, ZeroCredit>>

CleanedHeader ==
    << <<"customer_id">>, <<"name">>, <<"phone">>, <<"email">>,
       <<"registration_date">>, <<"status">>, <<"credit_limit">> >>


(***************************************************************************)
(* State.                                                                  *)
(***************************************************************************)
VARIABLES
    perms,             \* input file name -> "ok" | "missing" | "unreadable"
    customer_data,     \* sample_data/customer_data.csv: rows, the header first
    usage_data,        \* sample_data/usage_data.txt: lines
    billing_records,   \* sample_data/billing_records.txt: lines
    cleaned_file,      \* temp/customer_data_cleaned.csv
    rejected_file,     \* temp/customer_data_rejected.csv
    deduped_file,      \* temp/usage_data_deduped.txt
    aggregated_file,   \* temp/billing_aggregated.txt: one summary per line
    report_file,       \* output/telecom_daily_report_<date>.txt: its sections
    pc,                \* the call main() makes next, "done", "aborted" or "idle"
    argv,              \* the argument the script was started with
    log,               \* the messages of the log file, oldest first
    stats,             \* the counts the stages of this process have logged
    fedBack,           \* the customer input is a copy of the cleaned output
    runs,              \* inputs delivered so far
    dagTask,           \* the DAG task that runs or is next (1..5), 6 when all ran
    dagTry,            \* tries of that task so far
    dagState           \* "none" | "running" | "success" | "failed"

vars ==
    << perms, customer_data, usage_data, billing_records, cleaned_file,
       rejected_file, deduped_file, aggregated_file, report_file, pc, argv,
       log, stats, fedBack, runs, dagTask, dagTry, dagState >>

inputs == <<perms, customer_data, usage_data, billing_records>>
scheduler == <<fedBack, runs, dagTask, dagTry, dagState, argv>>

NoStats == [clean |-> <<>>, dedupe |-> <<>>, aggregate |-> <<>>]

\* log_message(level, message): one line appended to the log file.
log_message(lg, level, message) == Append(lg, <<level, message>>)

(***************************************************************************)
(* validate_input_files                                                    *)
(***************************************************************************)
\* The first required file that is missing or unreadable, 0 when none is.
FirstBadFile ==
    IF \E i \in 1..Len(InputFiles) : perms[InputFiles[i]] # "ok"
    THEN CHOOSE i \in 1..Len(InputFiles) :
            /\ perms[InputFiles[i]] # "ok"
            /\ \A j \in 1..(i - 1) : perms[InputFiles[j]] = "ok"
    ELSE 0

RECURSIVE LogValidated(_, _)
LogValidated(lg, n) ==
    IF n = 0 THEN lg ELSE log_message(LogValidated(lg, n - 1), "INFO", "Validated file")

\* Where main() is after a stage raised: the exception leaves main() and the
\* process ends.
Raised == "aborted"

\* A main() that calls deduplicate_usage_data before clean_customer_data.
ThenDedupeFirst(stage) ==
    CASE stage = "validate" -> "dedupe"
      [] stage = "dedupe" -> "clean"
      [] stage = "clean" -> "aggregate"
      [] stage = "aggregate" -> "report"
      [] stage = "report" -> "done"

\* main(): the call that follows the call of `stage` once it has returned.
Then(stage) ==
    CASE stage = "validate" -> "clean"
      [] stage = "clean" -> "dedupe"
      [] stage = "dedupe" -> "aggregate"
      [] stage = "aggregate" -> "report"
      [] stage = "report" -> "done"

\* main() up to and including validate_input_files().
validate_input_files ==
    /\ pc = "validate"
    /\ LET lg0 == log_message(log_message(log, "INFO", "Starting Python ETL pipeline"),
                              "INFO", "Validating input files...")
           bad == FirstBadFile
       IN  IF bad = 0
           THEN /\ log' = log_message(LogValidated(lg0, Len(InputFiles)), "INFO",
                                      "All input files validated successfully")
                /\ pc' = Then("validate")
           ELSE /\ log' = log_message(LogValidated(lg0, bad - 1), "ERROR",
                              IF perms[InputFiles[bad]] = "missing"
                              THEN "Required file not found" ELSE "File not readable")
                /\ pc' = Raised
    /\ stats' = NoStats
    /\ UNCHANGED <<inputs, cleaned_file, rejected_file, deduped_file, aggregated_file,
                   report_file, scheduler>>


(***************************************************************************)
(* clean_customer_data                                                     *)
(***************************************************************************)
\* x if x not in ("", "NULL") else sentinel
OrSentinel(x, sentinel) == IF x \in {<<>>, NULL} THEN sentinel ELSE x

\* The seven fields of a row after the "Handle NULLs" assignments.
Substituted(row) ==
    << OrSentinel(row[1], Sentinels[1]), OrSentinel(row[2], Sentinels[2]),
       OrSentinel(row[3], Sentinels[3]), OrSentinel(row[4], Sentinels[4]),
       OrSentinel(row[5], Sentinels[5]), OrSentinel(row[6], Sentinels[6]),
       OrSentinel(row[7], Sentinels[7]) >>

\* phone.isdigit() and len(phone) == 10
PhoneValid(phone) == isdigit(phone) /\ Len(phone) = 10

\* A date formatting that reorders to MMDDYYYY and writes no separators.
FormatDateCompact(reg_date) ==
    IF Len(reg_date) = 8 /\ isdigit(reg_date)
    THEN SubSeq(reg_date, 5, 6) \o SubSeq(reg_date, 7, 8) \o SubSeq(reg_date, 1, 4)
    ELSE reg_date

\* Format date YYYYMMDD -> YYYY-MM-DD
FormatDate(reg_date) ==
    IF Len(reg_date) = 8 /\ isdigit(reg_date)
    THEN SubSeq(reg_date, 1, 4) \o <<"-">> \o SubSeq(reg_date, 5, 6) \o <<"-">>
         \o SubSeq(reg_date, 7, 8)
    ELSE reg_date

\* The row appended to cleaned_rows for a row that passed validation.
CleanedRow(sub) ==
    <<sub[1], sub[2], sub[3], sub[4], FormatDate(sub[5]), sub[6], sub[7]>>

\* A reject branch that continues before it appends.
AppendRejectedDropped(rejected_rows, row, sub) == rejected_rows

\* A reject branch that appends the substituted fields.
AppendRejectedSubstituted(rejected_rows, row, sub) == Append(rejected_rows, sub)

\* rejected_rows.append(row): row is the row as read, sub its substituted form.
AppendRejected(rejected_rows, row, sub) == Append(rejected_rows, row)

\* The for loop over the data rows.  Unpacking a row that has not exactly
\* seven fields raises ValueError and nothing has been written yet.
RECURSIVE CleanLoop(_, _, _)
CleanLoop(data, cleaned_rows, rejected_rows) ==
    IF data = <<>>
    THEN [ok |-> TRUE, cleaned_rows |-> cleaned_rows, rejected_rows |-> rejected_rows]
    ELSE LET row == Head(data) IN
         IF Len(row) # 7
         THEN [ok |-> FALSE, cleaned_rows |-> cleaned_rows, rejected_rows |-> rejected_rows]
         ELSE LET sub == Substituted(row) IN
              IF ~PhoneValid(sub[3])
              THEN CleanLoop(Tail(data), cleaned_rows,
                             AppendRejected(rejected_rows, row, sub))
              ELSE CleanLoop(Tail(data), Append(cleaned_rows, CleanedRow(sub)),
                             rejected_rows)

\* The reject file after the stage: written only "if rejected_rows".
WriteRejects(old, header, rejected_rows) ==
    IF rejected_rows # <<>> THEN File(<<header>> \o rejected_rows) ELSE old

clean_customer_data ==
    /\ pc = "clean"
    /\ LET lg0 == log_message(log, "INFO", "Starting customer data cleaning process")
           rows == customer_data
       IN  IF rows = <<>>
           THEN \* header = rows[0] raises IndexError
                /\ log' = lg0
                /\ pc' = Raised
                /\ UNCHANGED <<cleaned_file, rejected_file, stats>>
           ELSE LET header == rows[1]
                    data == Tail(rows)
                    r == CleanLoop(data, <<>>, <<>>)
                IN  IF ~r.ok
                    THEN /\ log' = lg0
                         /\ pc' = Raised
                         /\ UNCHANGED <<cleaned_file, rejected_file, stats>>
                    ELSE /\ cleaned_file' = File(<<CleanedHeader>> \o r.cleaned_rows)
                         /\ rejected_file' = WriteRejects(rejected_file, header, r.rejected_rows)
                         /\ stats' = [stats EXCEPT !.clean =
                                        <<Len(data), Len(r.cleaned_rows), Len(r.rejected_rows)>>]
                         /\ log' = log_message(lg0, "INFO", "Customer data cleaning completed")
                         /\ pc' = Then("clean")
    /\ UNCHANGED <<inputs, deduped_file, aggregated_file, report_file, scheduler>>

(***************************************************************************)
(* deduplicate_usage_data                                                  *)
(***************************************************************************)
\* A loop that forgets to record the line.
SeenAddForgotten(seen, line) == seen

\* seen.add(line)
SeenAdd(seen, line) == seen \cup {line}

\* The loop over the lines: a line is kept the first time it is seen.
RECURSIVE DedupeLoop(_, _, _)
DedupeLoop(lines, seen, deduped) ==
    IF lines = <<>> THEN deduped
    ELSE LET line == Head(lines) IN
         IF line \notin seen
         THEN DedupeLoop(Tail(lines), SeenAdd(seen, line), Append(deduped, line))
         ELSE DedupeLoop(Tail(lines), seen, deduped)

deduplicate_usage_data ==
    /\ pc = "dedupe"
    /\ LET lines == usage_data
           input_count == Len(lines)
           deduped == DedupeLoop(lines, {}, <<>>)
           output_count == Len(deduped)
           duplicates_removed == input_count - output_count
       IN  /\ deduped_file' = File(deduped)
           /\ stats' = [stats EXCEPT !.dedupe =
                          <<input_count, output_count, duplicates_removed>>]
           /\ log' = log_message(
                       log_message(
                         log_message(log, "INFO", "Starting usage data deduplication"),
                         "INFO", "Deduplication completed"),
                       "INFO", "Final usage records")
           /\ pc' = Then("dedupe")
    /\ UNCHANGED <<inputs, cleaned_file, rejected_file, aggregated_file, report_file,
                   scheduler>>


(***************************************************************************)
(* aggregate_billing_data                                                  *)
(***************************************************************************)
\* The five dictionaries, held as one sequence of entries in the order the
\* keys were inserted (the order a dict iterates in).
Position(acc, customer_id) ==
    IF \E i \in 1..Len(acc) : acc[i].customer_id = customer_id
    THEN CHOOSE i \in 1..Len(acc) : acc[i].customer_id = customer_id
    ELSE 0

\* counts[customer_id] = 1
NextCountReset(count) == 1

\* counts[customer_id] = counts.get(customer_id, 0) + 1
NextCount(count) == count + 1

\* One pass of the loop body for a parsed row.
Accumulate(acc, customer_id, amount, billing_date) ==
    LET i == Position(acc, customer_id) IN
    IF i = 0
    THEN Append(acc, [customer_id |-> customer_id, total |-> 0 + amount,
                      count |-> NextCount(0), min |-> amount, max |-> amount,
                      last_date |-> billing_date])
    ELSE [acc EXCEPT ![i] =
            [customer_id |-> customer_id,
             total |-> @.total + amount,
             count |-> NextCount(@.count),
             min |-> IF amount < @.min THEN amount ELSE @.min,
             max |-> IF amount > @.max THEN amount ELSE @.max,
             last_date |-> IF StrGreater(billing_date, @.last_date)
                           THEN billing_date ELSE @.last_date]]

\* The loop over data: row[1] or row[2] of a short row raises IndexError,
\* float(row[1]) of a non-numeric amount raises ValueError.
RECURSIVE AggregateLoop(_, _)
AggregateLoop(data, acc) ==
    IF data = <<>> THEN [ok |-> TRUE, acc |-> acc]
    ELSE LET row == Head(data) IN
         IF Len(row) < 2 THEN [ok |-> FALSE, acc |-> acc]
         ELSE LET parsed == IF row[2] \in {<<>>, NULL} THEN [ok |-> TRUE, val |-> 0]
                            ELSE float(row[2])
              IN  IF ~parsed.ok \/ Len(row) < 3 THEN [ok |-> FALSE, acc |-> acc]
                  ELSE AggregateLoop(Tail(data),
                                     Accumulate(acc, row[1], parsed.val, row[3]))

\* A line written to billing_aggregated.txt after its header line, held by
\* its fields; avg is total / count, held as the pair of the two.  The file's
\* lines in the model are these lines: the header line, always written first,
\* is left out.
SummaryLine(e) ==
    [customer_id |-> e.customer_id, total_amount |-> e.total,
     avg_amount |-> <<e.total, e.count>>, record_count |-> e.count,
     min_amount |-> e.min, max_amount |-> e.max, last_billing_date |-> e.last_date]

aggregate_billing_data ==
    /\ pc = "aggregate"
    /\ LET lg0 == log_message(log, "INFO", "Starting billing data aggregation")
           lines == billing_records
       IN  IF lines = <<>>
           THEN \* header = lines[0] raises IndexError
                /\ log' = lg0
                /\ pc' = Raised
                /\ UNCHANGED <<aggregated_file, stats>>
           ELSE LET data == [k \in 1..(Len(lines) - 1) |-> split(strip(lines[k + 1]), "|")]
                    r == AggregateLoop(data, <<>>)
                IN  IF ~r.ok
                    THEN /\ log' = lg0
                         /\ pc' = Raised
                         /\ UNCHANGED <<aggregated_file, stats>>
                    ELSE /\ aggregated_file' =
                                File([k \in 1..Len(r.acc) |-> SummaryLine(r.acc[k])])
                         /\ stats' = [stats EXCEPT !.aggregate = <<Len(r.acc)>>]
                         /\ log' = log_message(lg0, "INFO", "Billing aggregation completed")
                         /\ pc' = Then("aggregate")
    /\ UNCHANGED <<inputs, cleaned_file, rejected_file, deduped_file, report_file,
                   scheduler>>


(***************************************************************************)
(* create_final_report                                                     *)
(***************************************************************************)
\* A block of lines written to the report.
Section(name, a, b) == [name |-> name, a |-> a, b |-> b]

\* len(parts) >= 3 and parts[2].replace('.', '', 1).isdigit()
UsageFieldAccepted(parts) == Len(parts) >= 3 /\ isdigit(ReplaceFirstDot(parts[3]))

\* The sections written after the body of the loop has run for `line` with
\* the running total `total`: the three f.write calls stand in the loop body.
UsageWrites(written, total_usage_records, total) ==
    Append(written, Section("USAGE DATA STATISTICS", total_usage_records, total))

\* The for loop over data_lines, the writes in its body included.
RECURSIVE UsageLoop(_, _, _, _)
UsageLoop(data_lines, total_usage_records, total_data_usage, written) ==
    IF data_lines = <<>>
    THEN [ok |-> TRUE, total |-> total_data_usage, written |-> written]
    ELSE LET parts == split(Head(data_lines), "|")
             parsed == IF UsageFieldAccepted(parts) THEN float(parts[3])
                       ELSE [ok |-> TRUE, val |-> 0]
         IN  IF ~parsed.ok
             THEN [ok |-> FALSE, total |-> total_data_usage, written |-> written]
             ELSE UsageLoop(Tail(data_lines), total_usage_records,
                            total_data_usage + parsed.val,
                            UsageWrites(written, total_usage_records,
                                        total_data_usage + parsed.val))

RECURSIVE SumTotals(_)
SumTotals(summaries) ==
    IF summaries = <<>> THEN 0
    ELSE Head(summaries).total_amount + SumTotals(Tail(summaries))

\* main() from create_final_report() to its end.
create_final_report ==
    /\ pc = "report"
    /\ LET lg0 == log_message(log, "INFO", "Creating final consolidated report")
           w0 == <<Section("TELECOM DAILY ETL REPORT", 0, 0)>>
           reader == cleaned_file.lines
           total_customers == Len(reader) - 1
           customer_ok == \A k \in 2..Len(reader) : Len(reader[k]) >= 6
           active == Cardinality({k \in 2..Len(reader) : reader[k][6] = ACTIVE})
           w1 == Append(w0, Section("CUSTOMER DATA STATISTICS", total_customers, active))
           lines == [k \in 1..Len(deduped_file.lines) |-> strip(deduped_file.lines[k])]
           data_lines == IF lines = <<>> THEN <<>> ELSE Tail(lines)
           total_usage_records == Len(data_lines)
           u == UsageLoop(data_lines, total_usage_records, 0, w1)
           total_billing_customers == Len(aggregated_file.lines)
           total_revenue == SumTotals(aggregated_file.lines)
           w2 == Append(u.written, Section("BILLING DATA STATISTICS",
                                           total_billing_customers, total_revenue))
           w3 == Append(w2, Section("PROCESSING SUMMARY", 0, 0))
       IN  IF ~customer_ok
           THEN /\ report_file' = File(w0)
                /\ log' = lg0
                /\ pc' = Raised
           ELSE IF ~u.ok
           THEN /\ report_file' = File(u.written)
                /\ log' = lg0
                /\ pc' = Raised
           ELSE /\ report_file' = File(w3)
                /\ log' = log_message(log_message(lg0, "INFO", "Final report created"),
                                      "INFO", "ETL pipeline completed")
                /\ pc' = Then("report")
    /\ UNCHANGED <<inputs, cleaned_file, rejected_file, deduped_file, aggregated_file,
                   stats, scheduler>>

\* main(): the five calls in their order.
main ==
    \/ validate_input_files
    \/ clean_customer_data
    \/ deduplicate_usage_data
    \/ aggregate_billing_data
    \/ create_final_report


(***************************************************************************)
(* Input files.                                                            *)
(***************************************************************************)
SeqsUpTo(S, n) == UNION {[1..k -> S] : k \in 0..n}

\* Only the last line of a text file can lack its newline.
IsText(ls) == \A i \in 1..(Len(ls) - 1) : ls[i][Len(ls[i])] = "\n"

\* a valid phone and an eight-digit date
RowValid ==
    << <<"C", "1">>, <<"A", "b">>, <<"0", "1", "2", "3", "4", "5", "6", "7", "8", "9">>, <<"a", "@", "b">>, <<"2", "0", "2", "4", "0", "1", "0", "1">>, <<"A", "C", "T", "I", "V", "E">>, <<"5", "0", "0">> >>

\* scenario A: an empty phone
RowEmptyPhone ==
    << <<"C", "1">>, <<"A", "b">>, <<>>, <<"a", "@", "b">>, <<"2", "0", "2", "4", "0", "1", "0", "1">>, <<"A", "C", "T", "I", "V", "E">>, <<"5", "0", "0">> >>

\* the phone "NULL"
RowNullPhone ==
    << <<"C", "1">>, <<"A", "b">>, <<"N", "U", "L", "L">>, <<"a", "@", "b">>, <<"2", "0", "2", "4", "-", "0", "1", "-", "0", "1">>, <<"I", "N", "A", "C", "T", "I", "V", "E">>, <<"5", "0", "0">> >>

\* scenario B: a five-digit phone
RowShortPhone ==
    << <<"C", "1">>, <<"A", "b">>, <<"1", "2", "3", "4", "5">>, <<"a", "@", "b">>, <<"2", "0", "2", "4", "0", "1", "0", "1">>, <<"A", "C", "T", "I", "V", "E">>, <<"5", "0", "0">> >>

\* eleven digits
RowLongPhone ==
    << <<"C", "1">>, <<"A", "b">>, <<"0", "1", "2", "3", "4", "5", "6", "7", "8", "9", "0">>, <<"a", "@", "b">>, <<"2", "0", "2", "4", "-", "0", "1", "-", "0", "1">>, <<"A", "C", "T", "I", "V", "E">>, <<"5", "0", "0">> >>

\* ten characters, one a letter
RowAlphaPhone ==
    << <<"C", "1">>, <<"A", "b">>, <<"0", "1", "2", "3", "4", "5", "6", "7", "8", "x">>, <<"a", "@", "b">>, <<"2", "0", "2", "4", "-", "0", "1", "-", "0", "1">>, <<"A", "C", "T", "I", "V", "E">>, <<"5", "0", "0">> >>

\* ten ARABIC-INDIC digits
RowArabicPhone ==
    << <<"C", "1">>, <<"A", "b">>, <<"U+0663", "U+0663", "U+0663", "U+0663", "U+0663", "U+0663", "U+0663", "U+0663", "U+0663", "U+0663">>, <<"a", "@", "b">>, <<"2", "0", "2", "4", "-", "0", "1", "-", "0", "1">>, <<"A", "C", "T", "I", "V", "E">>, <<"5", "0", "0">> >>

\* every field empty or NULL
RowAllMissing ==
    << <<>>, <<"N", "U", "L", "L">>, <<>>, <<>>, <<"N", "U", "L", "L">>, <<>>, <<>> >>

\* a seven-digit date
RowShortDate ==
    << <<"C", "1">>, <<"A", "b">>, <<"0", "1", "2", "3", "4", "5", "6", "7", "8", "9">>, <<"a", "@", "b">>, <<"2", "0", "2", "4", "0", "1", "1">>, <<"A", "C", "T", "I", "V", "E">>, <<"5", "0", "0">> >>

\* a rejected row with fields a sentinel would replace
RowNullDate ==
    << <<"C", "1">>, <<>>, <<"1", "2", "3", "4", "5">>, <<"a", "@", "b">>, <<"N", "U", "L", "L">>, <<"A", "C", "T", "I", "V", "E">>, <<"5", "0", "0">> >>

\* six fields
RowSixFields ==
    << <<"C", "1">>, <<"A", "b">>, <<"0", "1", "2", "3", "4", "5", "6", "7", "8", "9">>, <<"a", "@", "b">>, <<"2", "0", "2", "4", "-", "0", "1", "-", "0", "1">>, <<"A", "C", "T", "I", "V", "E">> >>

\* eight fields
RowEightFields ==
    << <<"C", "1">>, <<"A", "b">>, <<"0", "1", "2", "3", "4", "5", "6", "7", "8", "9">>, <<"a", "@", "b">>, <<"2", "0", "2", "4", "-", "0", "1", "-", "0", "1">>, <<"A", "C", "T", "I", "V", "E">>, <<"5", "0", "0">>, <<"x">> >>

\* A blank line: csv.reader yields the empty row.
RowBlank == <<>>

CustomerRows ==
    {RowValid, RowEmptyPhone, RowNullPhone, RowShortPhone, RowLongPhone, RowAlphaPhone,
     RowArabicPhone, RowAllMissing, RowShortDate, RowNullDate, RowSixFields, RowEightFields, RowBlank}

SourceHeader ==
    << <<"ID">>, <<"NAME">>, <<"PHONE">>, <<"EMAIL">>, <<"REG">>, <<"STATUS">>, <<"LIMIT">> >>

\* customer_data.csv: the empty file, or a header and up to MaxCustomerRows rows.
CustomerInputs ==
    {<<>>} \cup {<<h>> \o d : h \in {SourceHeader, CleanedHeader},
                               d \in SeqsUpTo(CustomerRows, MaxCustomerRows)}

GoodCustomer == <<SourceHeader, RowValid, RowNullPhone>>

UsageHeader == <<"h", "|", "h", "|", "m", "\n">>
Usage5 == <<"a", "|", "b", "|", "5", "\n">>
Usage7 == <<"a", "|", "b", "|", "7", "\n">>
Usage2_5 == <<"a", "|", "b", "|", "2", ".", "5", "\n">>
UsageTwoFields == <<"a", "|", "b", "\n">>
UsageLetter == <<"a", "|", "b", "|", "x", "\n">>
UsageSuperscript == <<"a", "|", "b", "|", "U+00B2", "\n">>
UsageNegative == <<"a", "|", "b", "|", "-", "5", "\n">>
UsageTwoDots == <<"a", "|", "b", "|", "1", ".", "2", ".", "3", "\n">>
UsageUnterminated == <<"a", "|", "b", "|", "5">>

UsageLines ==
    {UsageHeader, Usage5, Usage7, Usage2_5, UsageTwoFields,
     UsageLetter, UsageSuperscript, UsageNegative, UsageTwoDots, UsageUnterminated}

\* usage_data.txt: up to MaxUsageLines lines.
UsageInputs == {ls \in SeqsUpTo(UsageLines, MaxUsageLines) : IsText(ls)}

GoodUsage == <<UsageHeader, Usage5, Usage7, Usage5>>

BillingHeader == <<"h", "|", "m", "|", "b", "\n">>
BillingA10 == <<"A", "|", "1", "0", "|", "0", "5", "\n">>
BillingA20 == <<"A", "|", "2", "0", "|", "1", "0", "\n">>
BillingB5 == <<"B", "|", "5", "|", "9", "\n">>
BillingBEmpty == <<"B", "|", "|", "0", "5", "\n">>
BillingANull == <<"A", "|", "N", "U", "L", "L", "|", "0", "5", "\n">>
BillingPadded == <<" ", "A", "|", "2", ".", "5", "|", "0", "5", "\n">>
BillingLetter == <<"A", "|", "x", "|", "0", "5", "\n">>
BillingTwoFields == <<"A", "|", "1", "0", "\n">>
BillingBlank == <<"\n">>

BillingLines ==
    {BillingA10, BillingA20, BillingB5, BillingBEmpty, BillingANull,
     BillingPadded, BillingLetter, BillingTwoFields, BillingBlank}

\* billing_records.txt: the empty file, or a header and up to MaxBillingRows lines.
BillingInputs ==
    {<<>>} \cup {<<BillingHeader>> \o d : d \in SeqsUpTo(BillingLines, MaxBillingRows)}

GoodBilling == <<BillingHeader, BillingA10, BillingB5, BillingA20>>

AllReadable == [f \in {InputFiles[i] : i \in 1..Len(InputFiles)} |-> "ok"]

(***************************************************************************)
(* The environment: who starts the script, and with which files.           *)
(***************************************************************************)
\* The cleaned output is copied over the customer input and the script is
\* run again.
FeedBack ==
    /\ pc = "done"
    /\ dagState = "none"
    /\ ~fedBack
    /\ customer_data' = cleaned_file.lines
    /\ fedBack' = TRUE
    /\ pc' = "validate"
    /\ UNCHANGED <<perms, usage_data, billing_records, cleaned_file, rejected_file,
                   deduped_file, aggregated_file, report_file, argv, log, stats,
                   runs, dagTask, dagTry, dagState>>

\* The customer files a later day delivers.
DeliveredCustomers ==
    {<<SourceHeader>> \o d : d \in SeqsUpTo({RowValid, RowShortPhone, RowAlphaPhone}, 2)}

\* The next day's customer file arrives and the script is run again.
Deliver ==
    /\ pc \in {"done", "aborted"}
    /\ dagState = "none"
    /\ runs < MaxRuns
    /\ \E c \in DeliveredCustomers : customer_data' = c
    /\ runs' = runs + 1
    /\ fedBack' = FALSE
    /\ pc' = "validate"
    /\ UNCHANGED <<perms, usage_data, billing_records, cleaned_file, rejected_file,
                   deduped_file, aggregated_file, report_file, argv, log, stats,
                   dagTask, dagTry, dagState>>

\* default_args["retries"]
retries == 1

\* The last word of each task's bash_command, in the order of the
\* dependencies validate_files >> ... >> final_report.
TaskArgs == <<"validate", "clean_customers", "dedupe_usage", "aggregate_billing", "final_report">>

\* The scheduler runs the bash_command of the task whose turn it is.  The
\* script does not read sys.argv: under __main__ it calls main().
TaskStart ==
    /\ dagState = "running"
    /\ pc = "idle"
    /\ dagTask <= Len(TaskArgs)
    /\ argv' = TaskArgs[dagTask]
    /\ dagTry' = dagTry + 1
    /\ pc' = "validate"
    /\ UNCHANGED <<inputs, cleaned_file, rejected_file, deduped_file, aggregated_file,
                   report_file, log, stats, fedBack, runs, dagTask, dagState>>

\* The script exited with status 0: the next task's turn.
TaskSucceeded ==
    /\ dagState = "running"
    /\ pc = "done"
    /\ dagTask' = dagTask + 1
    /\ dagTry' = 0
    /\ dagState' = IF dagTask = Len(TaskArgs) THEN "success" ELSE "running"
    /\ pc' = "idle"
    /\ UNCHANGED <<inputs, cleaned_file, rejected_file, deduped_file, aggregated_file,
                   report_file, log, stats, fedBack, runs, argv>>

\* The script exited with a traceback: the task is tried again while it has
\* retries left, and the DAG run fails otherwise.
TaskFailed ==
    /\ dagState = "running"
    /\ pc = "aborted"
    /\ dagState' = IF dagTry <= retries THEN "running" ELSE "failed"
    /\ pc' = "idle"
    /\ UNCHANGED <<inputs, cleaned_file, rejected_file, deduped_file, aggregated_file,
                   report_file, log, stats, fedBack, runs, argv, dagTask, dagTry>>

(***************************************************************************)
(* Specifications.                                                         *)
(***************************************************************************)
\* A fresh checkout: no temp or output file, an empty log.
Fresh ==
    /\ cleaned_file = Absent
    /\ rejected_file = Absent
    /\ deduped_file = Absent
    /\ aggregated_file = Absent
    /\ report_file = Absent
    /\ log = <<>>
    /\ stats = NoStats
    /\ fedBack = FALSE
    /\ runs = 0
    /\ dagTask = 1
    /\ dagTry = 0

\* The script is started by hand, without an argument.
ByHand ==
    /\ pc = "validate"
    /\ argv = ""
    /\ dagState = "none"

\* Any customer file; the other inputs are in order.
InitCustomer ==
    /\ Fresh /\ ByHand
    /\ perms = AllReadable
    /\ customer_data \in CustomerInputs
    /\ usage_data = GoodUsage
    /\ billing_records = GoodBilling

SpecCustomer == InitCustomer /\ [][main \/ FeedBack]_vars

\* Any usage file.
InitUsage ==
    /\ Fresh /\ ByHand
    /\ perms = AllReadable
    /\ customer_data = GoodCustomer
    /\ usage_data \in UsageInputs
    /\ billing_records = GoodBilling

SpecUsage == InitUsage /\ [][main]_vars

\* Any billing file.
InitBilling ==
    /\ Fresh /\ ByHand
    /\ perms = AllReadable
    /\ customer_data = GoodCustomer
    /\ usage_data = GoodUsage
    /\ billing_records \in BillingInputs

SpecBilling == InitBilling /\ [][main]_vars

\* Inputs that make each stage that can fail do so, and inputs in order.
PipelineInputs ==
    /\ perms \in [{InputFiles[i] : i \in 1..Len(InputFiles)} -> {"ok", "missing", "unreadable"}]
    /\ customer_data \in {GoodCustomer, <<SourceHeader, RowShortPhone, RowSixFields>>}
    /\ usage_data \in {GoodUsage, <<UsageHeader, Usage5, UsageSuperscript>>}
    /\ billing_records \in {GoodBilling, <<BillingHeader, BillingA10, BillingLetter>>}

InitPipeline == Fresh /\ ByHand /\ PipelineInputs

SpecPipeline == InitPipeline /\ [][main]_vars

\* Several days, a new customer file each day.
InitRuns ==
    /\ Fresh /\ ByHand
    /\ perms = AllReadable
    /\ customer_data \in DeliveredCustomers
    /\ usage_data = GoodUsage
    /\ billing_records = GoodBilling

SpecRuns == InitRuns /\ [][main \/ Deliver]_vars

\* One run of the DAG.
InitDag ==
    /\ Fresh
    /\ PipelineInputs
    /\ pc = "idle"
    /\ argv = ""
    /\ dagState = "running"

SpecDag == InitDag /\ [][main \/ TaskStart \/ TaskSucceeded \/ TaskFailed]_vars

(***************************************************************************)
(* What the log says about the process that runs, or ran last.             *)
(***************************************************************************)
StartMsg ==
    << "Validating input files...", "Starting customer data cleaning process",
       "Starting usage data deduplication", "Starting billing data aggregation",
       "Creating final consolidated report" >>

DoneMsg ==
    << "All input files validated successfully", "Customer data cleaning completed",
       "Final usage records", "Billing aggregation completed", "Final report created" >>

Positions(lg, msg) == {i \in 1..Len(lg) : lg[i][2] = msg}

Max(S) == CHOOSE x \in S : \A y \in S : y <= x
Min(S) == CHOOSE x \in S : \A y \in S : x <= y

\* The lines of the log from the last "Starting Python ETL pipeline" on.
ProcLog ==
    LET P == Positions(log, "Starting Python ETL pipeline")
    IN  IF P = {} THEN <<>> ELSE SubSeq(log, Max(P), Len(log))

\* The script has gone past the first call of main() and the log's last
\* process is the one pc speaks of.
InProcess == pc \notin {"idle", "validate"}

\* Stage k (1..5) has been called, has returned, in that process.
Called(k) == InProcess /\ Positions(ProcLog, StartMsg[k]) # {}
Returned(k) == InProcess /\ Positions(ProcLog, DoneMsg[k]) # {}

\* The elements of s, each at its first occurrence only.
FirstOccurrences(s) ==
    LET F[i \in 0..Len(s)] ==
            IF i = 0 THEN <<>>
            ELSE IF \E j \in 1..(i - 1) : s[j] = s[i] THEN F[i - 1]
                 ELSE Append(F[i - 1], s[i])
    IN  F[Len(s)]

NoDuplicates(s) == \A i, j \in 1..Len(s) : i # j => s[i] # s[j]

\* out can be had from s by deleting elements.
IsSubsequence(out, s) ==
    \E f \in [1..Len(out) -> 1..Len(s)] :
        /\ \A i \in 1..Len(out) : out[i] = s[f[i]]
        /\ \A i \in 1..(Len(out) - 1) : f[i] < f[i + 1]

(***************************************************************************)
(* The customer cleanser.                                                  *)
(***************************************************************************)
CustomerRowsIn == IF customer_data = <<>> THEN <<>> ELSE Tail(customer_data)
CleanedRowsOut == IF cleaned_file.lines = <<>> THEN <<>> ELSE Tail(cleaned_file.lines)
RejectedRowsOut == IF rejected_file.lines = <<>> THEN <<>> ELSE Tail(rejected_file.lines)

SevenFields(row) == Len(row) = 7
AllSevenFields == \A k \in 1..Len(CustomerRowsIn) : SevenFields(CustomerRowsIn[k])

TenAsciiDigits(phone) ==
    Len(phone) = 10 /\ \A i \in 1..Len(phone) : phone[i] \in AsciiDigits

\* A seven-field row fails phone validation: its phone, "0000000000" standing
\* in for an empty or "NULL" one, is not ten digits for the code's test.
FailsPhone(row) == SevenFields(row) /\ ~PhoneValid(OrSentinel(row[3], ZeroPhone))

\* C1: every row of the cleaned output has a phone of exactly ten ASCII
\* digits 0-9; a row whose phone is not of that form is never in the cleaned
\* output.
C1_CleanedPhonesAreTenAsciiDigits ==
    Returned(2) => \A k \in 1..Len(CleanedRowsOut) : TenAsciiDigits(CleanedRowsOut[k][3])

\* C2 as stated: for every customer file with a header, the cleanser
\* finishes, with cleaned_count + rejected_count equal to the number of input
\* data rows.
C2_EveryInputIsCounted ==
    (Called(2) /\ customer_data # <<>>) =>
        /\ Returned(2)
        /\ stats.clean[2] + stats.clean[3] = Len(CustomerRowsIn)

\* C2 amended: for every customer file with a header whose data rows all have
\* exactly seven fields, the cleanser finishes with cleaned_count +
\* rejected_count equal to the number of input data rows, the cleaned file
\* holding cleaned_count rows; with a data row of another field count it
\* raises, and reports no counts.
C2_SevenFieldInputsAreCounted ==
    (Called(2) /\ customer_data # <<>>) =>
        /\ Returned(2) <=> AllSevenFields
        /\ Returned(2) =>
              /\ stats.clean[1] = Len(CustomerRowsIn)
              /\ stats.clean[2] + stats.clean[3] = Len(CustomerRowsIn)
              /\ stats.clean[2] = Len(CleanedRowsOut)
        /\ ~Returned(2) => stats.clean = <<>>

\* A run that cleaned one row and rejected another.
C2_Witness == Returned(2) /\ stats.clean[2] >= 1 /\ stats.clean[3] >= 1

\* C3: the rows that fail phone validation are written to the reject file
\* with their seven fields as read, after the input's header and in input
\* order; none of them is in the cleaned output; and they do not stop the
\* stage: with seven-field rows only the stage returns, having processed
\* every row.
C3_RejectsAreVerbatimAndRecoverable ==
    (Called(2) /\ customer_data # <<>> /\ AllSevenFields) =>
        /\ Returned(2)
        /\ LET failing == SelectSeq(CustomerRowsIn, FailsPhone) IN
           /\ failing # <<>> => rejected_file = File(<<customer_data[1]>> \o failing)
           /\ \A i \in 1..Len(failing), k \in 1..Len(CleanedRowsOut) :
                 CleanedRowsOut[k] # failing[i]
           /\ Len(CleanedRowsOut) = Len(CustomerRowsIn) - Len(failing)

\* A rejected row that a sentinel would have changed, followed by a row that
\* was cleaned.
C3_Witness ==
    /\ Returned(2)
    /\ Len(CustomerRowsIn) = 2
    /\ CustomerRowsIn[1] = RowNullDate
    /\ RejectedRowsOut = <<RowNullDate>>
    /\ Len(CleanedRowsOut) = 1

\* C4: run on the cleaned rows it produced, the cleanser returns, writes the
\* same rows in the same order with the same fields, and rejects none.
C4_CleanserIsIdempotent ==
    (fedBack /\ Called(2)) =>
        /\ Returned(2)
        /\ cleaned_file.lines = customer_data
        /\ stats.clean[3] = 0

\* The second run has cleaned a file of two rows, one with a reformatted date.
C4_Witness ==
    /\ fedBack /\ Returned(2)
    /\ Len(CleanedRowsOut) = 2
    /\ \E k \in 1..2 : CleanedRowsOut[k][5] = <<"2", "0", "2", "4", "-", "0", "1", "-", "0", "1">>
    /\ \E k \in 1..2 : CleanedRowsOut[k][3] = ZeroPhone

(***************************************************************************)
(* The usage deduplicator.                                                 *)
(***************************************************************************)
\* C5: the deduplicated file holds exactly the first occurrence of each
\* distinct line of the usage file, the first line included, lines compared
\* character by character with their newline: no two of its lines are equal,
\* it is a subsequence of the input, and output_count = input_count -
\* duplicates_removed.
C5_DedupeKeepsFirstOccurrences ==
    Returned(3) =>
        /\ deduped_file = File(FirstOccurrences(usage_data))
        /\ NoDuplicates(deduped_file.lines)
        /\ IsSubsequence(deduped_file.lines, usage_data)
        /\ stats.dedupe[1] = Len(usage_data)
        /\ stats.dedupe[2] = Len(deduped_file.lines)
        /\ stats.dedupe[2] = stats.dedupe[1] - stats.dedupe[3]

\* Scenario C: three lines, the third a repeat of the first.
C5_Witness ==
    /\ Returned(3)
    /\ usage_data = <<Usage5, Usage7, Usage5>>
    /\ deduped_file.lines = <<Usage5, Usage7>>
    /\ stats.dedupe[3] = 1

(***************************************************************************)
(* The billing aggregator.                                                 *)
(***************************************************************************)
\* The customer_id of each billing data row, as the aggregator reads it.
BillingIds ==
    [k \in 1..(Len(billing_records) - 1) |-> split(strip(billing_records[k + 1]), "|")[1]]

RECURSIVE SumCounts(_)
SumCounts(summaries) ==
    IF summaries = <<>> THEN 0
    ELSE Head(summaries).record_count + SumCounts(Tail(summaries))

\* C6: once the aggregator has consumed all data rows it has written one
\* summary per distinct customer_id, in the order of first appearance, each
\* with record_count >= 1, the number of that customer's rows, and the
\* record_counts add up to the number of billing data rows.
C6_OneSummaryPerCustomer ==
    Returned(4) =>
        LET out == aggregated_file.lines IN
        /\ [k \in 1..Len(out) |-> out[k].customer_id] = FirstOccurrences(BillingIds)
        /\ \A k \in 1..Len(out) :
              /\ out[k].record_count >= 1
              /\ out[k].record_count =
                    Cardinality({i \in 1..Len(BillingIds) : BillingIds[i] = out[k].customer_id})
        /\ SumCounts(out) = Len(billing_records) - 1

\* Two customers, the first with two rows around the second's.
C6_Witness ==
    /\ Returned(4)
    /\ billing_records = <<BillingHeader, BillingA10, BillingB5, BillingA20>>
    /\ Len(aggregated_file.lines) = 2
    /\ aggregated_file.lines[1].record_count = 2
    /\ aggregated_file.lines[2].customer_id = <<"B">>

(***************************************************************************)
(* The order of the stages.                                                *)
(***************************************************************************)
\* The stages called in the log's last process, in the order of their start
\* messages.
StartsOf(lg) ==
    LET F[i \in 0..Len(lg)] ==
            IF i = 0 THEN <<>>
            ELSE IF \E k \in 1..Len(StartMsg) : StartMsg[k] = lg[i][2]
                 THEN Append(F[i - 1], CHOOSE k \in 1..Len(StartMsg) : StartMsg[k] = lg[i][2])
                 ELSE F[i - 1]
    IN  F[Len(lg)]

\* C7: in one run of main() the stages are called in the order validate,
\* clean, dedupe, aggregate, report, each after its predecessor has returned;
\* a stage that raised is the last one called, and nothing is logged after an
\* ERROR line.
C7_StagesRunInOrderAndAbortOnFailure ==
    LET starts == StartsOf(ProcLog)
        n == Len(starts)
    IN  /\ starts = [k \in 1..n |-> k]
        /\ n <= Len(Stages)
        /\ \A k \in 2..n :
              /\ Positions(ProcLog, DoneMsg[k - 1]) # {}
              /\ Max(Positions(ProcLog, DoneMsg[k - 1])) < Min(Positions(ProcLog, StartMsg[k]))
        /\ \A k \in 1..n :
              Positions(ProcLog, DoneMsg[k]) = {} => (k = n /\ pc = "aborted")
        /\ \A i \in 1..Len(ProcLog) : ProcLog[i][1] = "ERROR" => i = Len(ProcLog)
        /\ pc = "aborted" => (n >= 1 /\ Positions(ProcLog, DoneMsg[n]) = {})
        /\ pc = "done" => n = Len(Stages)

\* The aggregator raised after three stages had returned.
C7_Witness ==
    /\ pc = "aborted"
    /\ StartsOf(ProcLog) = <<1, 2, 3, 4>>
    /\ Returned(3)

(***************************************************************************)
(* The DAG.                                                                *)
(***************************************************************************)
\* C8: each task's invocation runs the stage of its operation and no other,
\* so that a DAG run without failures has run each stage exactly once.
C8_EachTaskRunsItsOwnStage ==
    /\ InProcess /\ dagState = "running" =>
          \A k \in 1..Len(Stages) : Called(k) => argv = TaskArgs[k]
    /\ dagState = "success" =>
          \A k \in 1..Len(Stages) : Cardinality(Positions(log, StartMsg[k])) = 1

(***************************************************************************)
(* Runs on several days.                                                   *)
(***************************************************************************)
\* C9: after a completed run in which no customer row was rejected, the
\* reject file holds no rejected row.
C9_NoStaleRejects ==
    (pc = "done" /\ stats.clean[3] = 0) => RejectedRowsOut = <<>>

(***************************************************************************)
(* The usage statistics of the report.                                     *)
(***************************************************************************)
\* A non-negative decimal: ASCII digits, at least one, with at most one ".".
NonNegativeDecimal(field) ==
    /\ \E i \in 1..Len(field) : field[i] \in AsciiDigits
    /\ \A i \in 1..Len(field) : field[i] \in AsciiDigits \cup {"."}
    /\ Cardinality({i \in 1..Len(field) : field[i] = "."}) <= 1

\* The sum of the third fields that are non-negative decimals.
RECURSIVE SumOfThirdFields(_)
SumOfThirdFields(ls) ==
    IF ls = <<>> THEN 0
    ELSE LET parts == split(strip(Head(ls)), "|")
         IN  (IF Len(parts) >= 3 /\ NonNegativeDecimal(parts[3]) THEN float(parts[3]).val ELSE 0)
             + SumOfThirdFields(Tail(ls))

UsageSections ==
    SelectSeq(report_file.lines, LAMBDA sec : sec.name = "USAGE DATA STATISTICS")

\* C10: in the report of a stage that ran to its end, what is reported as
\* the total of usage records is the number of lines after the first, and
\* what is reported as the total data usage is the sum of the third fields
\* that are non-negative decimals.
C10_UsageTotalsAreReported ==
    Returned(5) =>
        LET data_lines == IF deduped_file.lines = <<>> THEN <<>> ELSE Tail(deduped_file.lines)
        IN  \A k \in 1..Len(UsageSections) :
               /\ UsageSections[k].a = Len(data_lines)
               /\ UsageSections[k].b = SumOfThirdFields(data_lines)

====
